---- MODULE Spec2Model ----
(***************************************************************************)
(* Model of Mezclas-armonicas: the incremental library cache               *)
(* (audio_manager.scan_directory), the Camelot helpers                     *)
(* (get_compatible_keys, parse_camelot_code), the matching engine          *)
(* (web_app.find_matches) and the background scan (web_app.start_scan,     *)
(* web_app.scan_worker).                                                   *)
(*                                                                         *)
(* Python strings are sequences of one-character strings, so that len(),   *)
(* indexing, int() and f-string formatting are computed as Python does.    *)
(***************************************************************************)
EXTENDS Integers, Sequences, FiniteSets, TLC

VARIABLES
    camelot_code,     \* get_compatible_keys / parse_camelot_code: the argument
    compatible,       \* get_compatible_keys: the returned list
    parsed,           \* parse_camelot_code: the returned pair
    disk,             \* CACHE_FILE: the persisted cache file
    fs,               \* the file system: (mtime, size) of each audio file, or None
    sd,               \* scan_directory: the frame of each caller's call
    envLeft,          \* environment events (file changes, extraction and
                      \* cache-write failures) that may still occur
    SCAN_STATUS,      \* web_app: the scan status record
    wk,               \* scan_worker: the frame of each worker thread
    reqLeft,          \* start-scan requests still to arrive
    response,         \* start_scan: the last response
    track,            \* find_matches: the reference track
    allowed_folders,  \* find_matches: the folder allow-list, or None
    matches,          \* find_matches: the returned list
    kpc,              \* the key helpers: "call" before the call, "done" after
    mpc,              \* find_matches: "call" before the call, "done" after
    request,          \* a match query received by the web application
    reply             \* the response to it, or None while it is pending

keyVars == <<camelot_code, compatible, parsed, kpc>>
matchVars == <<track, allowed_folders, matches, mpc, request, reply>>
scanVars == <<fs, sd, envLeft>>
webVars == <<SCAN_STATUS, wk, reqLeft, response>>
otherVars == <<camelot_code, compatible, parsed, kpc, track, allowed_folders, matches, mpc,
               request, reply>>
vars == <<camelot_code, compatible, parsed, kpc, disk, fs, sd, envLeft,
          SCAN_STATUS, wk, reqLeft, response, track, allowed_folders, matches, mpc,
          request, reply>>

(* An optional value is a sequence of length 0 or 1: Python's None is <<>> *)
(* and a value v that may also be None is Some(v).                        *)
None == <<>>
Some(v) == <<v>>

Range(s) == {s[i] : i \in DOMAIN s}

(***************************************************************************)
(* int() and str() on the characters the model uses.                       *)
(***************************************************************************)
DigitChars == {"0", "1", "2", "3", "4", "5", "6", "7", "8", "9"}

DigitVal(c) ==
    CASE c = "0" -> 0 [] c = "1" -> 1 [] c = "2" -> 2 [] c = "3" -> 3
      [] c = "4" -> 4 [] c = "5" -> 5 [] c = "6" -> 6 [] c = "7" -> 7
      [] c = "8" -> 8 [] c = "9" -> 9

DigitChar(d) ==
    CASE d = 0 -> "0" [] d = 1 -> "1" [] d = 2 -> "2" [] d = 3 -> "3"
      [] d = 4 -> "4" [] d = 5 -> "5" [] d = 6 -> "6" [] d = 7 -> "7"
      [] d = 8 -> "8" [] d = 9 -> "9"

(* int(s) succeeds: s is one or two digits, or a sign and a digit. *)
IntOK(s) ==
    \/ Len(s) = 1 /\ s[1] \in DigitChars
    \/ Len(s) = 2 /\ s[1] \in DigitChars /\ s[2] \in DigitChars
    \/ Len(s) = 2 /\ s[1] \in {"-", "+"} /\ s[2] \in DigitChars

IntVal(s) ==
    IF Len(s) = 1 THEN DigitVal(s[1])
    ELSE IF s[1] = "-" THEN 0 - DigitVal(s[2])
    ELSE IF s[1] = "+" THEN DigitVal(s[2])
    ELSE 10 * DigitVal(s[1]) + DigitVal(s[2])

(* f"{n}" for the integers the Camelot arithmetic can produce. *)
Str(n) ==
    LET a == IF n < 0 THEN 0 - n ELSE n
        digits == IF a < 10 THEN <<DigitChar(a)>>
                  ELSE IF a < 100 THEN <<DigitChar(a \div 10), DigitChar(a % 10)>>
                  ELSE <<DigitChar(a \div 100), DigitChar((a \div 10) % 10), DigitChar(a % 10)>>
    IN  IF n < 0 THEN <<"-">> \o digits ELSE digits

(***************************************************************************)
(* Python string methods used on paths: str.lower, str.replace('\\', '/'), *)
(* str.strip('/'), os.path.dirname, os.path.basename (POSIX flavour).      *)
(***************************************************************************)
LowerChar(c) ==
    CASE c = "M" -> "m" [] c = "A" -> "a" [] c = "B" -> "b" [] c = "C" -> "c"
      [] OTHER -> c

lower(s) == [i \in DOMAIN s |-> LowerChar(s[i])]

replace_backslash(s) == [i \in DOMAIN s |-> IF s[i] = "\\" THEN "/" ELSE s[i]]

RECURSIVE lstrip_slash(_)
lstrip_slash(s) ==
    IF s # <<>> /\ Head(s) = "/" THEN lstrip_slash(Tail(s)) ELSE s

RECURSIVE rstrip_slash(_)
rstrip_slash(s) ==
    IF s # <<>> /\ s[Len(s)] = "/" THEN rstrip_slash(SubSeq(s, 1, Len(s) - 1)) ELSE s

strip_slash(s) == rstrip_slash(lstrip_slash(s))

(* s.rfind('/') + 1: the length of the prefix that ends at the last '/'. *)
LastSlash(s) ==
    LET at == {i \in DOMAIN s : s[i] = "/"}
    IN  IF at = {} THEN 0 ELSE CHOOSE i \in at : \A j \in at : j <= i

dirname(p) ==
    LET head == SubSeq(p, 1, LastSlash(p))
    IN  IF head # <<>> /\ \E i \in DOMAIN head : head[i] # "/"
        THEN rstrip_slash(head)
        ELSE head

basename(p) == SubSeq(p, LastSlash(p) + 1, Len(p))

(***************************************************************************)
(* audio_manager.get_compatible_keys                                       *)
(***************************************************************************)
SENTINEL_CAMELOT == <<"-", "-", "-">>

OtherLetter(letter) == IF letter = "A" THEN "B" ELSE "A"

PlusOneNoWrap(number) == number + 1
PlusOne(number) == IF number < 12 THEN number + 1 ELSE 1

MinusOne(number) == IF number > 1 THEN number - 1 ELSE 12

CompatibleList(code, number, letter) ==
    << code,
       Str(number) \o <<OtherLetter(letter)>>,
       Str(PlusOne(number)) \o <<letter>>,
       Str(MinusOne(number)) \o <<letter>> >>

get_compatible_keys(code) ==
    IF code = SENTINEL_CAMELOT THEN <<>>
    ELSE IF Len(code) = 2 THEN
        IF IntOK(<<code[1]>>)
        THEN CompatibleList(code, IntVal(<<code[1]>>), code[2])
        ELSE <<>>
    ELSE IF Len(code) = 3 THEN
        IF IntOK(<<code[1], code[2]>>)
        THEN CompatibleList(code, IntVal(<<code[1], code[2]>>), code[3])
        ELSE <<>>
    ELSE <<>>

(***************************************************************************)
(* audio_manager.parse_camelot_code                                        *)
(***************************************************************************)
parse_camelot_code(code) ==
    IF Len(code) = 2 /\ IntOK(<<code[1]>>)
    THEN <<Some(IntVal(<<code[1]>>)), Some(code[2])>>
    ELSE IF Len(code) = 3 /\ IntOK(<<code[1], code[2]>>)
    THEN <<Some(IntVal(<<code[1], code[2]>>)), Some(code[3])>>
    ELSE <<None, None>>

(***************************************************************************)
(* The Camelot positions, written as the extractor writes them             *)
(* (CAMELOT_MAJOR / CAMELOT_MINOR).                                        *)
(***************************************************************************)
Code(n, l) == Str(n) \o <<l>>
ValidCodes == {Code(n, l) : n \in 1..12, l \in {"A", "B"}}

(***************************************************************************)
(* The audio files of the model and the records get_audio_info builds for  *)
(* them (lines 144-158: path, filename, folder, then the analysed fields). *)
(***************************************************************************)
P1 == <<"/", "M", "/", "x", ".", "m", "p", "3">>
P2 == <<"/", "M", "/", "a", "/", "y", ".", "m", "p", "3">>
P3 == <<"/", "n", "/", "z", ".", "w", "a", "v">>

SENTINEL_DBFS == -99

(* Lines 89-98: the Camelot tables, indexed by pitch class + 1. *)
CAMELOT_MAJOR ==
    << Code(8, "B"), Code(3, "B"), Code(10, "B"), Code(5, "B"), Code(12, "B"), Code(7, "B"),
       Code(2, "B"), Code(9, "B"), Code(4, "B"), Code(11, "B"), Code(6, "B"), Code(1, "B") >>
CAMELOT_MINOR ==
    << Code(5, "A"), Code(12, "A"), Code(7, "A"), Code(2, "A"), Code(9, "A"), Code(4, "A"),
       Code(11, "A"), Code(6, "A"), Code(1, "A"), Code(8, "A"), Code(3, "A"), Code(10, "A") >>
NOTE_NAMES == <<"C", "C#", "D", "Eb", "E", "F", "F#", "G", "Ab", "A", "Bb", "B">>

UNKNOWN_KEY == <<"Unknown">>

(* What estimate_key returns for pitch class key_idx and a scale: the pair *)
(* (f"{NOTE_NAMES[key_idx]} {scale}", camelot).                           *)
EstimatedKey(key_idx, scale) ==
    << <<NOTE_NAMES[key_idx + 1], scale>>,
       IF scale = "Major" THEN CAMELOT_MAJOR[key_idx + 1] ELSE CAMELOT_MINOR[key_idx + 1] >>

EstimatedKeys == {EstimatedKey(k, sc) : k \in 0..11, sc \in {"Major", "Minor"}}

(* The 'key' label estimate_key pairs with a Camelot code. *)
KeyLabel(camelot) ==
    IF \E e \in EstimatedKeys : e[2] = camelot
    THEN (CHOOSE e \in EstimatedKeys : e[2] = camelot)[1]
    ELSE UNKNOWN_KEY

Info(path, dbfs, camelot, bpm) ==
    [path |-> path, filename |-> basename(path), folder |-> dirname(path),
     dbfs |-> dbfs, key |-> KeyLabel(camelot), camelot |-> camelot, bpm |-> bpm]

EntryWithoutMtime(path, mtime, size, info) ==
    [path |-> path, mtime |-> 0, size |-> size, info |-> info]
Entry(path, mtime, size, info) ==
    [path |-> path, mtime |-> mtime, size |-> size, info |-> info]

(***************************************************************************)
(* The persisted cache (CACHE_FILE).  json.load gives a dict in file       *)
(* order and json.dump writes it in insertion order, so the cache is a     *)
(* sequence of entries [path, mtime, size, info] with distinct paths.      *)
(***************************************************************************)
CachePaths(cache) == {cache[i].path : i \in DOMAIN cache}

CacheHas(cache, p) == p \in CachePaths(cache)

CacheGet(cache, p) == cache[CHOOSE i \in DOMAIN cache : cache[i].path = p]

CachePutAlone(cache, entry) == <<entry>>

CachePutKeepsInfo(cache, entry) ==
    IF CacheHas(cache, entry.path)
    THEN [i \in DOMAIN cache |->
            IF cache[i].path = entry.path THEN [entry EXCEPT !.info = cache[i].info]
            ELSE cache[i]]
    ELSE Append(cache, entry)

(* cache[p] = entry: in place when the key exists, appended otherwise. *)
CachePut(cache, entry) ==
    IF CacheHas(cache, entry.path)
    THEN [i \in DOMAIN cache |-> IF cache[i].path = entry.path THEN entry ELSE cache[i]]
    ELSE Append(cache, entry)

(***************************************************************************)
(* audio_manager.load_cache / save_cache.  The file is missing, holds a    *)
(* JSON document (json.load(json.dump(c)) = c for the strings and numbers  *)
(* a cache holds, in the same order), or holds text json.load rejects.     *)
(***************************************************************************)
CacheFile(status, data) == [status |-> status, data |-> data]

load_cache == IF disk.status = "json" THEN disk.data ELSE <<>>

(* save_cache(cache): the file after the call.  "ok": written in full;     *)
(* "open": open() failed, the file is as it was; "dump": the file was      *)
(* truncated by open() and json.dump failed part-way.                      *)
SaveOutcomes == {"ok", "open", "dump"}

SaveCacheWritesAnyway(cache, outcome) == CacheFile("json", cache)
save_cache(cache, outcome) ==
    CASE outcome = "ok" -> CacheFile("json", cache)
      [] outcome = "open" -> disk
      [] outcome = "dump" -> CacheFile("corrupt", <<>>)

(***************************************************************************)
(* web_app.get_library                                                     *)
(***************************************************************************)
RECURSIVE SelectSeq2(_, _)
SelectSeq2(s, keep) ==
    IF s = <<>> THEN <<>>
    ELSE IF Head(s) \in keep THEN <<Head(s)>> \o SelectSeq2(Tail(s), keep)
    ELSE SelectSeq2(Tail(s), keep)

(* info['file_size'] = data.get('size', 0) *)
LibraryInfo(entry) ==
    [k \in DOMAIN entry.info \cup {"file_size"} |->
        IF k = "file_size" THEN entry.size ELSE entry.info[k]]

get_library ==
    LET cache == load_cache
        all == [i \in DOMAIN cache |-> LibraryInfo(cache[i])]
    IN  SelectSeq2(all, {t \in Range(all) : t.camelot # <<>> /\ t.camelot # SENTINEL_CAMELOT})

(***************************************************************************)
(* web_app.find_matches                                                    *)
(***************************************************************************)
NormalizeFolder(f) == strip_slash(replace_backslash(lower(f)))

TrackFolderNorm(t) ==
    LET track_path_norm == NormalizeFolder(t.path)
    IN  IF "/" \in Range(track_path_norm) THEN dirname(track_path_norm) ELSE <<>>

FilterLibraryKeepsAll(library, allowed) == library

FilterLibrary(library, allowed) ==
    LET normalized_allowed == {NormalizeFolder(allowed[i]) : i \in DOMAIN allowed}
    IN  SelectSeq2(library, {t \in Range(library) :
                                t.path # <<>> /\ TrackFolderNorm(t) \in normalized_allowed})

IsUpNoWrap(curr_num, cand_num) == cand_num = curr_num + 1
IsUp(curr_num, cand_num) ==
    (cand_num = curr_num + 1) \/ (curr_num = 12 /\ cand_num = 1)

IsDown(curr_num, cand_num) ==
    (cand_num = curr_num - 1) \/ (curr_num = 1 /\ cand_num = 12)

HarmonicDesc(curr_let, cand_let) ==
    IF curr_let = "B" /\ cand_let = "A" THEN "Cambio de Escala: De Alegre a Serio"
    ELSE IF curr_let = "A" /\ cand_let = "B" THEN "Cambio de Escala: De Serio a Alegre"
    ELSE "Tonalidad adyacente"

(* Lines 231-262: mix_type, mix_desc and sort_priority of one candidate. *)
Classify(track_camelot, cand_camelot) ==
    LET curr == parse_camelot_code(track_camelot)
        cand == parse_camelot_code(cand_camelot)
        default == [mix_type |-> "HARMONIC", mix_desc |-> "Tonalidad adyacente", priority |-> 2]
        curr_num == curr[1][1]
        curr_let == curr[2][1]
        cand_num == cand[1][1]
        cand_let == cand[2][1]
    IN  IF curr[1] # None /\ cand[1] # None THEN
            IF track_camelot = cand_camelot THEN
                [mix_type |-> "PERFECT",
                 mix_desc |-> "Misma tonalidad - (Mantiene la vibra)",
                 priority |-> 1]
            ELSE IF curr_num = cand_num /\ curr_let # cand_let THEN
                [mix_type |-> "HARMONIC",
                 mix_desc |-> HarmonicDesc(curr_let, cand_let),
                 priority |-> 2]
            ELSE IF IsUp(curr_num, cand_num) THEN
                [mix_type |-> "ENERGY", mix_desc |-> "Subir energia (+1)", priority |-> 3]
            ELSE IF IsDown(curr_num, cand_num) THEN
                [mix_type |-> "ENERGY", mix_desc |-> "Bajar energia (-1)", priority |-> 3]
            ELSE default
        ELSE default

Abs(n) == IF n < 0 THEN 0 - n ELSE n

TrackFolder(t) == IF t.folder # <<>> THEN t.folder ELSE dirname(t.path)

Descriptor(t, candidate) ==
    LET c == Classify(t.camelot, candidate.camelot)
    IN  [track |-> candidate,
         bpm_diff |-> Abs(candidate.bpm - t.bpm),
         priority |-> c.priority,
         mix_type |-> c.mix_type,
         mix_desc |-> c.mix_desc,
         same_folder_priority |-> IF candidate.folder = TrackFolder(t) THEN 0 ELSE 10]

(* Variants of the loop: without line 215, and without the test of line 217. *)
CollectWithSelf(t, library, compatible_keys) ==
    LET kept == SelectSeq2(library, {c \in Range(library) : c.camelot \in Range(compatible_keys)})
    IN  [k \in DOMAIN kept |-> Descriptor(t, kept[k])]

CollectEveryCandidate(t, library, compatible_keys) ==
    LET kept == SelectSeq2(library, {c \in Range(library) : c.path # t.path})
    IN  [k \in DOMAIN kept |-> Descriptor(t, kept[k])]

RECURSIVE CollectMatches(_, _, _)
CollectMatches(t, library, compatible_keys) ==
    IF library = <<>> THEN <<>>
    ELSE LET candidate == Head(library)
             rest == CollectMatches(t, Tail(library), compatible_keys)
         IN  IF candidate.path = t.path THEN rest
             ELSE IF candidate.camelot \in Range(compatible_keys)
             THEN <<Descriptor(t, candidate)>> \o rest
             ELSE rest

KeyLessTierFirst(a, b) ==
    \/ a.priority < b.priority
    \/ /\ a.priority = b.priority
       /\ \/ a.same_folder_priority < b.same_folder_priority
          \/ a.same_folder_priority = b.same_folder_priority /\ a.bpm_diff < b.bpm_diff

(* The key of matches.sort: (same_folder_priority, priority, bpm_diff). *)
KeyLess(a, b) ==
    \/ a.same_folder_priority < b.same_folder_priority
    \/ /\ a.same_folder_priority = b.same_folder_priority
       /\ \/ a.priority < b.priority
          \/ a.priority = b.priority /\ a.bpm_diff < b.bpm_diff

(* list.sort is stable: an element goes after every element not greater. *)
RECURSIVE InsertSorted(_, _)
InsertSorted(s, m) ==
    IF s = <<>> THEN <<m>>
    ELSE IF KeyLess(m, Head(s)) THEN <<m>> \o s
    ELSE <<Head(s)>> \o InsertSorted(Tail(s), m)

RECURSIVE StableSort(_)
StableSort(s) ==
    IF s = <<>> THEN <<>>
    ELSE InsertSorted(StableSort(SubSeq(s, 1, Len(s) - 1)), s[Len(s)])

FindMatchesEmptyIsNoFilter(t, allowed) ==
    LET library == IF allowed = None \/ allowed[1] = <<>> THEN get_library
                   ELSE FilterLibrary(get_library, allowed[1])
    IN  StableSort(CollectMatches(t, library, get_compatible_keys(t.camelot)))

find_matches(t, allowed) ==
    LET library == IF allowed = None THEN get_library
                   ELSE FilterLibrary(get_library, allowed[1])
    IN  IF allowed # None /\ Len(allowed[1]) = 0 THEN <<>>
        ELSE StableSort(CollectMatches(t, library, get_compatible_keys(t.camelot)))

(***************************************************************************)
(* The match-query endpoints of web_app.  A value that arrives in a        *)
(* request (a form field decoded by json.loads, or a member of the JSON    *)
(* body) is a Python value of any type: None, a list, a str or an int.     *)
(***************************************************************************)
PyNone == [kind |-> "none", val |-> <<>>]
PyList(l) == [kind |-> "list", val |-> l]
PyStr(x) == [kind |-> "str", val |-> x]
PyInt(n) == [kind |-> "int", val |-> n]

(* json.loads on the texts without white space and escapes: an integer, a  *)
(* string, or an array of those.  None when it raises, else Some(value).   *)
JsonInt(x) ==
    \/ Len(x) = 1 /\ x[1] \in DigitChars
    \/ Len(x) = 2 /\ x[1] \in DigitChars \ {"0"} /\ x[2] \in DigitChars
    \/ Len(x) = 2 /\ x[1] = "-" /\ x[2] \in DigitChars

JsonString(x) ==
    /\ Len(x) >= 2
    /\ x[1] = "\"" /\ x[Len(x)] = "\""
    /\ \A k \in 2..(Len(x) - 1) : x[k] \notin {"\"", "\\"}

JsonScalar(x) ==
    IF JsonInt(x) THEN Some(PyInt(IntVal(x)))
    ELSE IF JsonString(x) THEN Some(PyStr(SubSeq(x, 2, Len(x) - 1)))
    ELSE None

RECURSIVE SplitComma(_)
SplitComma(x) ==
    IF "," \notin Range(x) THEN <<x>>
    ELSE LET i == CHOOSE k \in DOMAIN x : x[k] = "," /\ \A j \in 1..(k - 1) : x[j] # ","
         IN  <<SubSeq(x, 1, i - 1)>> \o SplitComma(SubSeq(x, i + 1, Len(x)))

json_loads(x) ==
    IF Len(x) >= 2 /\ x[1] = "[" /\ x[Len(x)] = "]"
    THEN LET inner == SubSeq(x, 2, Len(x) - 1)
             items == SplitComma(inner)
         IN  IF inner = <<>> THEN Some(PyList(<<>>))
             ELSE IF \A k \in DOMAIN items : JsonScalar(items[k]) # None
             THEN Some(PyList([k \in DOMAIN items |-> JsonScalar(items[k])[1]]))
             ELSE None
    ELSE JsonScalar(x)

(* find_matches called with a Python value as allowed_folders: len() of an *)
(* int raises TypeError, .lower() of an int raises AttributeError, and a   *)
(* str is iterated character by character.                                 *)
Raised == [raised |-> TRUE, val |-> <<>>]
Returns(v) == [raised |-> FALSE, val |-> v]

call_find_matches(t, v) ==
    CASE v.kind = "none" -> Returns(find_matches(t, None))
      [] v.kind = "int" -> Raised
      [] v.kind = "str" ->
            Returns(find_matches(t, Some([k \in DOMAIN v.val |-> <<v.val[k]>>])))
      [] v.kind = "list" ->
            IF \E k \in DOMAIN v.val : v.val[k].kind # "str" THEN Raised
            ELSE Returns(find_matches(t, Some([k \in DOMAIN v.val |-> v.val[k].val])))

Reply(status, error, t, suggestions) ==
    Some([status |-> status, error |-> error, track |-> t, suggestions |-> suggestions])

Truthy(opt) == opt # None /\ opt[1] # <<>>

(* The first record of a sequence that is in the set keep, or None. *)
First(recs, keep) ==
    IF \E k \in DOMAIN recs : recs[k] \in keep
    THEN Some(recs[CHOOSE k \in DOMAIN recs :
                      recs[k] \in keep /\ \A j \in 1..(k - 1) : recs[j] \notin keep])
    ELSE None

(* Lines 103-108: the allow-list analyze_track passes on. *)
FormAllowList(form_value) ==
    IF form_value = None THEN PyNone
    ELSE IF form_value[1] = <<>> THEN PyStr(<<>>)
    ELSE IF json_loads(form_value[1]) = None THEN PyNone
    ELSE json_loads(form_value[1])[1]

analyze_track(req) ==
    IF req.filename = None THEN Reply(400, Some("No file part"), None, None)
    ELSE IF req.filename[1] = <<>> THEN Reply(400, Some("No selected file"), None, None)
    ELSE LET allowed == FormAllowList(req.form_allowed)
             library == get_library
             existing_track == First(library, {t \in Range(library) : t.filename = req.filename[1]})
         IN  IF existing_track # None
             THEN LET r == call_find_matches(existing_track[1], allowed)
                  IN  IF r.raised THEN Reply(500, Some("exception"), None, None)
                      ELSE Reply(200, None, existing_track, Some(r.val))
             ELSE Reply(404, Some("Archivo no encontrado en la biblioteca"), None, None)

(* The handler without the lookup of lines 161-166. *)
MixSuggestionsInline(req) ==
    IF req.track = None THEN Reply(400, Some("No track provided"), None, None)
    ELSE LET r == call_find_matches(req.track[1], req.json_allowed)
         IN  IF r.raised THEN Reply(500, Some("exception"), None, None)
             ELSE Reply(200, None, Some(req.track[1]), Some(r.val))

mix_suggestions(req) ==
    IF req.track = None THEN Reply(400, Some("No track provided"), None, None)
    ELSE LET track_data == req.track[1]
             library == get_library
             found == IF track_data.path # <<>>
                      THEN First(library, {t \in Range(library) : t.path = track_data.path})
                      ELSE None
             t == IF found # None THEN found[1] ELSE track_data
             r == call_find_matches(t, req.json_allowed)
         IN  IF r.raised THEN Reply(500, Some("exception"), None, None)
             ELSE Reply(200, None, Some(t), Some(r.val))

IsSubstring(a, b) ==
    \E i \in 0..(Len(b) - Len(a)) : SubSeq(b, i + 1, i + Len(a)) = a

get_track_suggestions(track_data) ==
    Reply(200, None, Some(track_data.info), Some(find_matches(track_data.info, None)))

SubstringBeforeExact(cache, filename) ==
    First(cache, {e \in Range(cache) : IsSubstring(filename, e.info.filename)})

ExactThenSubstring(cache, filename) ==
    LET exact == First(cache, {e \in Range(cache) : e.info.filename = filename})
    IN  IF exact # None THEN exact
        ELSE First(cache, {e \in Range(cache) : IsSubstring(filename, e.info.filename)})

get_track_info(req) ==
    IF ~Truthy(req.path) /\ ~Truthy(req.filename)
    THEN Reply(400, Some("Path or filename parameter required"), None, None)
    ELSE LET cache == load_cache
             by_name == IF Truthy(req.filename)
                        THEN ExactThenSubstring(cache, req.filename[1]) ELSE None
         IN  IF Truthy(req.path) /\ CacheHas(cache, req.path[1])
             THEN get_track_suggestions(CacheGet(cache, req.path[1]))
             ELSE IF by_name # None THEN get_track_suggestions(by_name[1])
             ELSE Reply(404, Some("Track not found in cache"), None, None)

KeysIdle ==
    /\ camelot_code = <<>>
    /\ compatible = <<>>
    /\ parsed = <<>>
    /\ kpc = "done"

QueryIdle ==
    /\ request = None
    /\ reply = None

MatchIdle ==
    /\ track = <<>>
    /\ allowed_folders = None
    /\ matches = <<>>
    /\ mpc = "done"
    /\ QueryIdle

(***************************************************************************)
(* os.path.abspath and glob on the model's file tree.  The process runs    *)
(* in CWD; a directory argument may be absolute or relative to it.         *)
(***************************************************************************)
CWD == <<"/", "M">>
D_M == <<"/", "M">>
D_a == <<"a">>
D_n == <<"/", "n">>
Files == {P1, P2, P3}
(* A file of the tree that is no audio file. *)
P_txt == <<"/", "M", "/", "c", ".", "t", "x", "t">>

(* Line 291: the patterns '*.mp3', '*.wav', '*.flac', '*.m4a'. *)
extensions ==
    << <<".", "m", "p", "3">>, <<".", "w", "a", "v">>,
       <<".", "f", "l", "a", "c">>, <<".", "m", "4", "a">> >>

SeqsOf(S) == {q \in [1..Cardinality(S) -> S] : Range(q) = S}
SetToSeq(S) == CHOOSE q \in SeqsOf(S) : TRUE

RECURSIVE Flatten(_)
Flatten(ss) == IF ss = <<>> THEN <<>> ELSE Head(ss) \o Flatten(Tail(ss))

IsAbs(p) == p # <<>> /\ p[1] = "/"

RECURSIVE SplitSlash(_)
SplitSlash(p) ==
    IF "/" \notin Range(p) THEN <<p>>
    ELSE LET i == CHOOSE k \in DOMAIN p : p[k] = "/" /\ \A j \in 1..(k - 1) : p[j] # "/"
         IN  <<SubSeq(p, 1, i - 1)>> \o SplitSlash(SubSeq(p, i + 1, Len(p)))

RECURSIVE JoinSlash(_)
JoinSlash(comps) ==
    IF comps = <<>> THEN <<>>
    ELSE IF Len(comps) = 1 THEN comps[1]
    ELSE comps[1] \o <<"/">> \o JoinSlash(Tail(comps))

(* os.path.normpath: drops empty and '.' components, resolves '..'. *)
RECURSIVE Resolve(_, _, _)
Resolve(comps, acc, absolute) ==
    IF comps = <<>> THEN acc
    ELSE LET c == Head(comps)
         IN  IF c = <<>> \/ c = <<".">> THEN Resolve(Tail(comps), acc, absolute)
             ELSE IF c = <<".", ".">> THEN
                 IF acc # <<>> /\ acc[Len(acc)] # <<".", ".">>
                 THEN Resolve(Tail(comps), SubSeq(acc, 1, Len(acc) - 1), absolute)
                 ELSE IF absolute THEN Resolve(Tail(comps), acc, absolute)
                 ELSE Resolve(Tail(comps), Append(acc, c), absolute)
             ELSE Resolve(Tail(comps), Append(acc, c), absolute)

normpath(p) ==
    LET comps == Resolve(SplitSlash(p), <<>>, IsAbs(p))
    IN  IF IsAbs(p) THEN <<"/">> \o JoinSlash(comps)
        ELSE IF comps = <<>> THEN <<".">> ELSE JoinSlash(comps)

abspath(p) == normpath(IF IsAbs(p) THEN p ELSE CWD \o <<"/">> \o p)

(* os.path.join(a, b) for a relative b. *)
join(a, b) == IF a # <<>> /\ a[Len(a)] = "/" THEN a \o b ELSE a \o <<"/">> \o b

EndsWith(p, suffix) ==
    Len(p) >= Len(suffix) /\ SubSeq(p, Len(p) - Len(suffix) + 1, Len(p)) = suffix

(* os.stat of an absolute path: Some((mtime, size)), or None for OSError. *)
Stat(f) == IF f \in DOMAIN fs THEN fs[f] ELSE None

Tree == {f \in Files : fs[f] # None} \cup {P_txt}

(* glob(os.path.join(directory, '**', ext), recursive=True): the files of  *)
(* the tree below the directory whose name ends with the extension, each   *)
(* spelled with the directory as it was given.                             *)
Glob(directory, ext) ==
    LET D == abspath(directory)
        below == {f \in Tree : /\ Len(f) > Len(D) + 1
                               /\ SubSeq(f, 1, Len(D)) = D
                               /\ f[Len(D) + 1] = "/"
                               /\ EndsWith(f, ext)}
    IN  SetToSeq({join(directory, SubSeq(f, Len(D) + 2, Len(f))) : f \in below})

(* Lines 299-304: audio_files after the two loops, duplicates included. *)
FoundFiles(directories) ==
    Flatten([d \in DOMAIN directories |->
                Flatten([e \in DOMAIN extensions |-> Glob(directories[d], extensions[e])])])

(* Line 307: list(set([os.path.abspath(f) for f in audio_files])); the     *)
(* order of a set's elements is any order.                                 *)
AudioFileListsNoSet(found) == {[i \in DOMAIN found |-> abspath(found[i])]}
AudioFileLists(found) == SeqsOf({abspath(found[i]) : i \in DOMAIN found})

(***************************************************************************)
(* audio_manager.get_audio_info.  What the extractor returns depends on    *)
(* the file and the codecs, which the model leaves open:                   *)
(*   "ok"        every step succeeded;                                     *)
(*   "metadata"  calculate_gain is False: no loudness, key or tempo;       *)
(*   "decode"    AudioSegment.from_file (or mutagen) raised: the defaults  *)
(*               of lines 144-158 stay;                                    *)
(*   "analysis"  an exception after line 207 set info['dbfs'] and before   *)
(*               line 255 set the key: loudness without key and tempo.     *)
(* No exception leaves the function (lines 280-284).                       *)
(***************************************************************************)
OK_DBFS == -12
OK_BPM == 120
(* The keys estimate_key finds in the model's files. *)
ExtractedKeys == {EstimatedKey(9, "Minor")}

SentinelInfo(filepath) == Info(filepath, SENTINEL_DBFS, SENTINEL_CAMELOT, 0)

ExtractOutcomes(filepath, calculate_gain, faults) ==
    IF Stat(filepath) = None THEN {"decode"}
    ELSE IF ~calculate_gain THEN {"metadata"}
    ELSE {"ok"} \cup (IF faults > 0 THEN {"decode", "analysis"} ELSE {})

get_audio_info(filepath, outcome, key) ==
    CASE outcome = "ok" ->
            [path |-> filepath, filename |-> basename(filepath), folder |-> dirname(filepath),
             dbfs |-> OK_DBFS, key |-> key[1], camelot |-> key[2], bpm |-> OK_BPM]
      [] outcome = "analysis" ->
            [SentinelInfo(filepath) EXCEPT !.dbfs = OK_DBFS]
      [] OTHER -> SentinelInfo(filepath)

(***************************************************************************)
(* audio_manager.scan_directory.  One frame per caller: the command line   *)
(* (main) and the background workers of the web application.  Besides the  *)
(* function's locals a frame records what the call did (loaded, seen,      *)
(* extracted, outcomes, stored, saved, the state of the cache file when it *)
(* was read and its content just before it was written, the (mtime, size)  *)
(* each file had when get_audio_info read it, read_at, and the one the     *)
(* cache update captured, captured, the files the callback was called     *)
(* with, notified), the caller's                                           *)
(* previous call (prev)                                                    *)
(* and the files the environment changed during the previous call          *)
(* (chgPrev), between the two calls (chgGap), during this call (chgCur)    *)
(* and after it returned (chgAfter).                                       *)
(***************************************************************************)
Workers == {"w1", "w2"}
Procs == {"cli"} \cup Workers

NoPrev ==
    [ran |-> FALSE, directories |-> <<>>, calculate_gain |-> TRUE, returned |-> {}, saved |-> None,
     stale |-> {}]

(* The files a call stored under an (mtime, size) other than the one they  *)
(* had when get_audio_info read them.                                      *)
StoredStale(fr) ==
    {fr.extracted[k] : k \in {j \in DOMAIN fr.captured :
                                 fr.captured[j] # None /\ fr.captured[j] # fr.read_at[j]}}

IdleFrame ==
    [pc |-> "idle", directories |-> <<>>, calculate_gain |-> TRUE,
     audio_files |-> <<>>, cache |-> <<>>, files_to_analyze |-> <<>>,
     files |-> <<>>, i |-> 0, info |-> None, callback |-> None,
     n |-> 0, loaded |-> <<>>, seen |-> <<>>, extracted |-> <<>>, outcomes |-> <<>>,
     stored |-> {}, read_at |-> <<>>, captured |-> <<>>, notified |-> <<>>,
     cache_file |-> "missing", before_save |-> <<>>,
     saved |-> None, prev |-> NoPrev,
     chgPrev |-> {}, chgGap |-> {}, chgCur |-> {}, chgAfter |-> {}]

InCall(fr) == fr.pc \notin {"idle", "returned", "raised"}

ReturnedPaths(fr) == {fr.files[k].path : k \in DOMAIN fr.files}

FingerprintIgnoresSize(entry, st) == entry.mtime = st.mtime
FingerprintMatches(entry, st) == entry.mtime = st.mtime /\ entry.size = st.size

GainIncompleteNever(info) == FALSE
GainIncomplete(info) == info.dbfs = SENTINEL_DBFS

(* Lines 317-339, one file: "oserror" (dropped), "reuse" or "analyze". *)
Disposition(f_path, cache, calculate_gain) ==
    IF Stat(f_path) = None THEN "oserror"
    ELSE IF CacheHas(cache, f_path) /\ FingerprintMatches(CacheGet(cache, f_path), Stat(f_path)[1])
    THEN IF calculate_gain /\ GainIncomplete(CacheGet(cache, f_path).info)
         THEN "analyze" ELSE "reuse"
    ELSE "analyze"

ToAnalyzeCachedOnly(audio_files, cache, calculate_gain) ==
    SelectSeq2(audio_files,
               {f \in Range(audio_files) :
                   CacheHas(cache, f) /\ Disposition(f, cache, calculate_gain) = "analyze"})

(* Lines 316-339: the lists files_to_analyze and files after the loop. *)
ToAnalyze(audio_files, cache, calculate_gain) ==
    SelectSeq2(audio_files,
               {f \in Range(audio_files) : Disposition(f, cache, calculate_gain) = "analyze"})

ReusedNone(audio_files, cache, calculate_gain) == <<>>
Reused(audio_files, cache, calculate_gain) ==
    LET kept == SelectSeq2(audio_files,
                   {f \in Range(audio_files) : Disposition(f, cache, calculate_gain) = "reuse"})
    IN  [k \in DOMAIN kept |-> CacheGet(cache, kept[k]).info]

(* Lines 288-312: glob, abspath, set, load_cache. *)
ScanCall(p, directories, calculate_gain, callback) ==
    /\ ~InCall(sd[p])
    /\ \E audio_files \in AudioFileLists(FoundFiles(directories)) :
          sd' = [sd EXCEPT ![p] =
                    [IdleFrame EXCEPT
                        !.pc = "classify",
                        !.directories = directories,
                        !.calculate_gain = calculate_gain,
                        !.callback = callback,
                        !.audio_files = audio_files,
                        !.cache = load_cache,
                        !.loaded = load_cache,
                        !.cache_file = disk.status,
                        !.n = sd[p].n + 1,
                        !.prev = [ran |-> sd[p].pc = "returned",
                                  directories |-> sd[p].directories,
                                  calculate_gain |-> sd[p].calculate_gain,
                                  returned |-> ReturnedPaths(sd[p]),
                                  saved |-> sd[p].saved,
                                  stale |-> StoredStale(sd[p])],
                        !.chgPrev = sd[p].chgCur,
                        !.chgGap = sd[p].chgAfter]]

(* Lines 316-342: the classification loop. *)
ScanClassify(p) ==
    /\ sd[p].pc = "classify"
    /\ LET fr == sd[p]
           todo == ToAnalyze(fr.audio_files, fr.cache, fr.calculate_gain)
       IN  sd' = [sd EXCEPT ![p] =
                    [fr EXCEPT
                        !.files_to_analyze = todo,
                        !.files = Reused(fr.audio_files, fr.cache, fr.calculate_gain),
                        !.seen = [k \in DOMAIN fr.audio_files |-> Stat(fr.audio_files[k])],
                        !.i = 1,
                        !.pc = IF todo # <<>> THEN "analyze" ELSE "returned"]]
    /\ UNCHANGED <<fs, disk, envLeft, webVars, otherVars>>

(* web_app.py lines 532-533: the callback scan_worker passes. *)
progress_callback(filepath) == [SCAN_STATUS EXCEPT !.current_file = Some(basename(filepath))]

(* The loop without lines 348-349. *)
ScanNotifySkips(p) ==
    /\ sd[p].pc = "analyze"
    /\ sd[p].callback # None
    /\ sd' = [sd EXCEPT ![p].pc = "extract"]
    /\ UNCHANGED <<fs, disk, envLeft, webVars, otherVars>>

(* Lines 348-349: if callback: callback(f). *)
ScanNotify(p) ==
    /\ sd[p].pc = "analyze"
    /\ sd[p].callback # None
    /\ LET f == sd[p].files_to_analyze[sd[p].i]
       IN  /\ SCAN_STATUS' = progress_callback(f)
           /\ sd' = [sd EXCEPT ![p].notified = Append(@, f), ![p].pc = "extract"]
    /\ UNCHANGED <<fs, disk, envLeft, wk, reqLeft, response, otherVars>>

(* Lines 350-352: get_audio_info(f, calculate_gain), append. *)
ScanExtract(p) ==
    /\ \/ sd[p].pc = "analyze" /\ sd[p].callback = None
       \/ sd[p].pc = "extract"
    /\ LET fr == sd[p]
           f == fr.files_to_analyze[fr.i]
       IN  \E outcome \in ExtractOutcomes(f, fr.calculate_gain, envLeft), key \in ExtractedKeys :
              LET info == get_audio_info(f, outcome, key)
              IN  /\ sd' = [sd EXCEPT ![p] =
                              [fr EXCEPT !.info = Some(info),
                                         !.files = Append(fr.files, info),
                                         !.extracted = Append(fr.extracted, f),
                                         !.outcomes = Append(fr.outcomes, outcome),
                                         !.read_at = Append(fr.read_at, Stat(f)),
                                         !.pc = "store"]]
                  /\ envLeft' = IF outcome \in {"decode", "analysis"} /\ Stat(f) # None
                                THEN envLeft - 1 ELSE envLeft
    /\ UNCHANGED <<fs, disk, webVars, otherVars>>

(* The cache update followed by save_cache in every iteration. *)
ScanStoreAndSave(p) ==
    /\ sd[p].pc = "store"
    /\ LET fr == sd[p]
           f == fr.files_to_analyze[fr.i]
           st == Stat(f)
           last == fr.i = Len(fr.files_to_analyze)
           cache == IF st = None THEN fr.cache
                    ELSE CachePut(fr.cache, Entry(f, st[1].mtime, st[1].size, fr.info[1]))
       IN  /\ sd' = [sd EXCEPT ![p] =
                       [fr EXCEPT
                           !.cache = cache,
                           !.stored = IF st = None THEN fr.stored ELSE fr.stored \cup {f},
                           !.captured = Append(fr.captured, st),
                           !.info = None,
                           !.i = fr.i + 1,
                           !.pc = IF last THEN "save" ELSE "analyze"]]
           /\ disk' = save_cache(cache, "ok")
    /\ UNCHANGED <<fs, envLeft, webVars, otherVars>>

(* Lines 355-362: cache[f] = {mtime, size, info}, skipped when stat fails. *)
ScanStore(p) ==
    /\ sd[p].pc = "store"
    /\ LET fr == sd[p]
           f == fr.files_to_analyze[fr.i]
           st == Stat(f)
           last == fr.i = Len(fr.files_to_analyze)
       IN  sd' = [sd EXCEPT ![p] =
                    [fr EXCEPT
                        !.cache = IF st = None THEN fr.cache
                                  ELSE CachePut(fr.cache, Entry(f, st[1].mtime, st[1].size, fr.info[1])),
                        !.stored = IF st = None THEN fr.stored ELSE fr.stored \cup {f},
                        !.captured = Append(fr.captured, st),
                        !.info = None,
                        !.i = fr.i + 1,
                        !.pc = IF last THEN "save" ELSE "analyze"]]
    /\ UNCHANGED <<fs, disk, envLeft, webVars, otherVars>>

(* Lines 364-369: save_cache(cache); return files. *)
ScanSave(p) ==
    /\ sd[p].pc = "save"
    /\ \E outcome \in {"ok"} \cup (IF envLeft > 0 THEN SaveOutcomes ELSE {}) :
          /\ disk' = save_cache(sd[p].cache, outcome)
          /\ sd' = [sd EXCEPT ![p].saved = Some(outcome), ![p].pc = "returned",
                               ![p].before_save = load_cache]
          /\ envLeft' = IF outcome = "ok" THEN envLeft ELSE envLeft - 1
    /\ UNCHANGED <<fs, webVars, otherVars>>

(***************************************************************************)
(* The environment: another program rewrites a file (a later mtime),       *)
(* changes its length, or removes it.                                      *)
(***************************************************************************)
Sizes == {1, 2}

NoteChange(f) ==
    [p \in Procs |->
        IF InCall(sd[p]) THEN [sd[p] EXCEPT !.chgCur = @ \cup {f}]
        ELSE [sd[p] EXCEPT !.chgAfter = @ \cup {f}]]

EnvTouch(f) ==
    /\ envLeft > 0
    /\ fs[f] # None
    /\ fs' = [fs EXCEPT ![f] = Some([fs[f][1] EXCEPT !.mtime = @ + 1])]
    /\ sd' = NoteChange(f)
    /\ envLeft' = envLeft - 1
    /\ UNCHANGED <<disk, webVars, otherVars>>

EnvResize(f) ==
    /\ envLeft > 0
    /\ fs[f] # None
    /\ \E size \in Sizes \ {fs[f][1].size} :
          fs' = [fs EXCEPT ![f] = Some([fs[f][1] EXCEPT !.size = size])]
    /\ sd' = NoteChange(f)
    /\ envLeft' = envLeft - 1
    /\ UNCHANGED <<disk, webVars, otherVars>>

EnvDelete(f) ==
    /\ envLeft > 0
    /\ fs[f] # None
    /\ fs' = [fs EXCEPT ![f] = None]
    /\ sd' = NoteChange(f)
    /\ envLeft' = envLeft - 1
    /\ UNCHANGED <<disk, webVars, otherVars>>

ScanIdle ==
    /\ fs = [f \in Files |-> Some([mtime |-> 1, size |-> 1])]
    /\ sd = [p \in Procs |-> IdleFrame]
    /\ envLeft = 0

(***************************************************************************)
(* web_app: SCAN_STATUS, scan_worker and start_scan.                       *)
(***************************************************************************)
SCAN_STATUS_0 ==
    [scanning |-> FALSE, current_folder |-> None, current_file |-> None, last_scan |-> None]

IdleWorker == [pc |-> "idle", folders |-> <<>>, k |-> 0, analysed |-> {}, raised |-> FALSE]

WebIdle ==
    /\ SCAN_STATUS = SCAN_STATUS_0
    /\ wk = [w \in Workers |-> IdleWorker]
    /\ reqLeft = 0
    /\ response = None

D_Ma == <<"/", "M", "/", "a">>
D_gone == <<"/", "g", "o", "n", "e">>
Directories == {D_M, D_Ma, D_n}

(* os.path.exists(folder) *)
exists(folder) == abspath(folder) \in Directories

(* load_library_folders(): the configured root folders (none, one with    *)
(* two files below it, or three of which one no longer exists).            *)
FolderConfigs == {<<>>, <<D_M>>, <<D_gone, D_Ma, D_n>>}

(* The thread start_scan starts is one that is not running. *)
Active(w) == wk[w].pc \notin {"idle", "done", "killed"}

(* The process was terminated while a scan was running. *)
Killed == \E w \in Workers : wk[w].pc = "killed"

(* Lines 563-577: start_scan. *)
StartScan ==
    /\ ~Killed
    /\ reqLeft > 0
    /\ reqLeft' = reqLeft - 1
    /\ IF SCAN_STATUS.scanning
       THEN /\ response' = Some("already_scanning")
            /\ UNCHANGED wk
       ELSE \E folders \in FolderConfigs :
               IF folders = <<>>
               THEN /\ response' = Some("No folders configured")
                    /\ UNCHANGED wk
               ELSE \E w \in Workers :
                       /\ ~Active(w)
                       /\ wk' = [wk EXCEPT ![w] = [pc |-> "start", folders |-> folders, k |-> 1,
                                                    analysed |-> {}, raised |-> FALSE]]
                       /\ response' = Some("started")
    /\ UNCHANGED <<SCAN_STATUS, disk, scanVars, otherVars>>

(* Line 530: SCAN_STATUS['scanning'] = True, the worker's first statement. *)
WorkerBegin(w) ==
    /\ wk[w].pc = "start"
    /\ SCAN_STATUS' = [SCAN_STATUS EXCEPT !.scanning = TRUE]
    /\ wk' = [wk EXCEPT ![w].pc = "loop"]
    /\ UNCHANGED <<reqLeft, response, disk, scanVars, otherVars>>

(* Lines 537-546: the next folder, skipped when it does not exist, else    *)
(* scan_directory(folder, calculate_gain=True, callback=progress_callback) *)
(* is called; after the last folder last_scan is set.                      *)
WorkerFolder(w) ==
    /\ wk[w].pc = "loop"
    /\ IF wk[w].k > Len(wk[w].folders)
       THEN /\ SCAN_STATUS' = [SCAN_STATUS EXCEPT !.last_scan = Some("now")]
            /\ wk' = [wk EXCEPT ![w].pc = "finally"]
            /\ UNCHANGED sd
       ELSE LET folder == wk[w].folders[wk[w].k]
            IN  IF ~exists(folder)
                THEN /\ wk' = [wk EXCEPT ![w].k = @ + 1]
                     /\ UNCHANGED <<SCAN_STATUS, sd>>
                ELSE /\ SCAN_STATUS' = [SCAN_STATUS EXCEPT !.current_folder = Some(folder)]
                     /\ ScanCall(w, <<folder>>, TRUE, Some("progress_callback"))
                     /\ wk' = [wk EXCEPT ![w].pc = "scan"]
    /\ UNCHANGED <<reqLeft, response, disk, fs, envLeft, otherVars>>

(* scan_directory returned: the loop goes on with the next folder. *)
WorkerScanned(w) ==
    /\ wk[w].pc = "scan"
    /\ sd[w].pc = "returned"
    /\ wk' = [wk EXCEPT ![w].pc = "loop", ![w].k = @ + 1,
                         ![w].analysed = @ \cup Range(sd[w].extracted)]
    /\ UNCHANGED <<SCAN_STATUS, reqLeft, response, disk, scanVars, otherVars>>

(* Lines 535-549: a statement of the try block (a print, or a statement   *)
(* of scan_directory outside its own handlers) raises; the handler prints  *)
(* the error and control reaches the finally block.                        *)
WorkerRaise(w) ==
    /\ wk[w].pc \in {"loop", "scan"}
    /\ wk' = [wk EXCEPT ![w].pc = "finally", ![w].raised = TRUE]
    /\ sd' = [sd EXCEPT ![w] = IF InCall(@) THEN [IdleFrame EXCEPT !.pc = "raised"] ELSE @]
    /\ UNCHANGED <<SCAN_STATUS, reqLeft, response, disk, fs, envLeft, otherVars>>

(* The thread ends without the assignments of lines 551-553. *)
WorkerFinallySkipped(w) ==
    /\ wk[w].pc = "finally"
    /\ wk' = [wk EXCEPT ![w].pc = "done"]
    /\ UNCHANGED <<SCAN_STATUS, reqLeft, response, disk, scanVars, otherVars>>

(* Lines 550-553: the finally block; the thread ends. *)
WorkerFinally(w) ==
    /\ wk[w].pc = "finally"
    /\ SCAN_STATUS' = [SCAN_STATUS EXCEPT !.scanning = FALSE,
                                          !.current_folder = None,
                                          !.current_file = None]
    /\ wk' = [wk EXCEPT ![w].pc = "done"]
    /\ UNCHANGED <<reqLeft, response, disk, scanVars, otherVars>>

(* The process ends while a scan is running: the worker threads are daemon *)
(* threads (line 574) and stop wherever they are.  A worker stopped inside *)
(* save_cache, after open(CACHE_FILE, 'w') truncated the file and before   *)
(* json.dump finished, leaves a partial file.                              *)
Interrupt ==
    /\ \E w \in Workers : Active(w)
    /\ wk' = [w \in Workers |-> [wk[w] EXCEPT !.pc = "killed"]]
    /\ sd' = [p \in Procs |-> IF InCall(sd[p]) THEN [sd[p] EXCEPT !.pc = "killed"] ELSE sd[p]]
    /\ \/ disk' = disk
       \/ /\ \E w \in Workers : sd[w].pc = "save"
          /\ disk' = CacheFile("corrupt", <<>>)
    /\ UNCHANGED <<SCAN_STATUS, reqLeft, response, fs, envLeft, otherVars>>

MaxRequests == 2

WebInit ==
    /\ KeysIdle
    /\ MatchIdle
    /\ ScanIdle
    /\ disk = CacheFile("missing", <<>>)
    /\ SCAN_STATUS = SCAN_STATUS_0
    /\ wk = [w \in Workers |-> IdleWorker]
    /\ reqLeft = MaxRequests
    /\ response = None

WebNext ==
    \/ StartScan
    \/ \E w \in Workers : WorkerBegin(w)
    \/ \E w \in Workers : WorkerFolder(w)
    \/ \E w \in Workers : WorkerScanned(w)
    \/ \E w \in Workers : WorkerRaise(w)
    \/ \E w \in Workers : WorkerFinally(w)
    \/ \E w \in Workers : ScanClassify(w)
    \/ \E w \in Workers : ScanNotify(w)
    \/ \E w \in Workers : ScanExtract(w)
    \/ \E w \in Workers : ScanStore(w)
    \/ \E w \in Workers : ScanSave(w)
    \/ Interrupt

SpecWeb == WebInit /\ [][WebNext]_vars

(* The scheduler runs every thread that can run: a worker that can take a *)
(* step eventually takes one.  WorkerFolder can be taken exactly when the  *)
(* worker is at the head of its loop, and its weak fairness is written     *)
(* with that condition in the place of ENABLED.                            *)
WorkerStep(w) ==
    \/ WorkerBegin(w)
    \/ WorkerScanned(w)
    \/ WorkerFinally(w)
    \/ ScanClassify(w)
    \/ ScanNotify(w)
    \/ ScanExtract(w)
    \/ ScanStore(w)
    \/ ScanSave(w)

WorkerFair(w) ==
    /\ WF_vars(WorkerStep(w))
    /\ []<>(wk[w].pc # "loop") \/ []<><<WorkerFolder(w)>>_vars

SpecWebLive == WebInit /\ [][WebNext]_vars /\ \A w \in Workers : WorkerFair(w)

(***************************************************************************)
(* The command line: main calls scan_directory(target_paths,               *)
(* calculate_gain = not args.no_gain), and again after "change folder".    *)
(***************************************************************************)
MaxScans == 2
MaxEnv == 1

RootLists == {<<D_a, D_M>>, <<D_n>>}

CliScan ==
    /\ sd["cli"].n < MaxScans
    /\ \E directories \in RootLists, calculate_gain \in BOOLEAN :
          ScanCall("cli", directories, calculate_gain, None)
    /\ UNCHANGED <<fs, disk, envLeft, webVars, otherVars>>

ScanInit ==
    /\ KeysIdle
    /\ MatchIdle
    /\ WebIdle
    /\ disk = CacheFile("missing", <<>>)
    /\ fs = [f \in Files |-> Some([mtime |-> 1, size |-> 1])]
    /\ sd = [p \in Procs |-> IdleFrame]
    /\ envLeft = MaxEnv

ScanNext ==
    \/ CliScan
    \/ ScanClassify("cli")
    \/ ScanExtract("cli")
    \/ ScanStore("cli")
    \/ ScanSave("cli")
    \/ \E f \in Files : EnvTouch(f)
    \/ \E f \in Files : EnvResize(f)
    \/ \E f \in Files : EnvDelete(f)

Spec == ScanInit /\ [][ScanNext]_vars

(***************************************************************************)
(* Inputs of the key helpers: every string of at most MaxCodeLen           *)
(* characters over CodeChars.                                              *)
(***************************************************************************)
MaxCodeLen == 3
CodeChars == DigitChars \cup {"A", "B", "C", "-"}
CodeInputs == UNION {[1..n -> CodeChars] : n \in 0..MaxCodeLen}

KeysInit ==
    /\ camelot_code \in CodeInputs
    /\ compatible = <<>>
    /\ parsed = <<>>
    /\ kpc = "call"
    /\ disk = CacheFile("missing", <<>>)
    /\ ScanIdle
    /\ WebIdle
    /\ MatchIdle

(* Both helpers applied to the same code, as find_matches applies them. *)
CallKeyHelpers ==
    /\ kpc = "call"
    /\ compatible' = get_compatible_keys(camelot_code)
    /\ parsed' = parse_camelot_code(camelot_code)
    /\ kpc' = "done"
    /\ UNCHANGED <<camelot_code, disk, scanVars, webVars, matchVars>>

KeysNext == CallKeyHelpers

SpecKeys == KeysInit /\ [][KeysNext]_vars

(***************************************************************************)
(* Inputs of find_matches: a cache of at most MaxLib analysed files, a     *)
(* reference track taken from the library or supplied inline, and an       *)
(* allow-list.                                                             *)
(***************************************************************************)
MaxLib == 1
LibPath == <<P1, P2, P3>>
LibBpm == <<128, 120, 123>>
RefBpm == 120

LibCodes == ValidCodes \cup {SENTINEL_CAMELOT}
RefCodes == ValidCodes \cup {SENTINEL_CAMELOT, <<"0", "A">>, <<"1", "3", "B">>, <<"8", "C">>}
AllowLists == {None, Some(<<>>), Some(<< <<"/", "M">> >>)}

LibEntry(i, camelot) ==
    Entry(LibPath[i], 1, 1,
          Info(LibPath[i], IF camelot = SENTINEL_CAMELOT THEN SENTINEL_DBFS ELSE -12,
               camelot, IF camelot = SENTINEL_CAMELOT THEN 0 ELSE LibBpm[i]))

Libraries ==
    UNION {{[i \in 1..n |-> LibEntry(i, codes[i])] : codes \in [1..n -> LibCodes]} :
              n \in 0..(IF MaxLib < Len(LibPath) THEN MaxLib ELSE Len(LibPath))}

RefTracks ==
    {[path |-> p, folder |-> IF p = <<>> THEN <<>> ELSE dirname(p),
      camelot |-> c, bpm |-> RefBpm] : p \in {<<>>, P1}, c \in RefCodes}

MatchInit ==
    /\ KeysIdle
    /\ ScanIdle
    /\ WebIdle
    /\ disk \in {CacheFile("json", lib) : lib \in Libraries}
    /\ track \in RefTracks
    /\ allowed_folders \in AllowLists
    /\ matches = <<>>
    /\ mpc = "call"
    /\ QueryIdle

FindMatches ==
    /\ mpc = "call"
    /\ matches' = find_matches(track, allowed_folders)
    /\ mpc' = "done"
    /\ UNCHANGED <<keyVars, disk, scanVars, webVars, track, allowed_folders, request, reply>>

MatchNext == FindMatches

SpecMatch == MatchInit /\ [][MatchNext]_vars

(***************************************************************************)
(* find_matches over libraries of several candidates: the reference is an  *)
(* inline track in folder /M, the candidates lie in its folder and in      *)
(* other folders, with codes in every relation to the reference's and two  *)
(* tempos.                                                                 *)
(***************************************************************************)
MaxRank == 3
P4 == <<"/", "n", "/", "a", "x", ".", "m", "p", "3">>
RankPath == <<P3, P1, P4, P2>>
RankBpm == {120, 126}
RankCodes == {Code(8, "A"), Code(8, "B"), Code(9, "A"), Code(3, "B")}
RankRefCodes == {Code(8, "A"), Code(9, "A")}

RankEntry(i, camelot, bpm) == Entry(RankPath[i], 1, 1, Info(RankPath[i], -12, camelot, bpm))

RankLibraries ==
    UNION {{[i \in 1..n |-> RankEntry(i, codes[i], bpms[i])] :
                codes \in [1..n -> RankCodes], bpms \in [1..n -> RankBpm]} :
              n \in 0..(IF MaxRank < Len(RankPath) THEN MaxRank ELSE Len(RankPath))}

RankRefTracks ==
    {[path |-> <<>>, folder |-> D_M, camelot |-> c, bpm |-> RefBpm] : c \in RankRefCodes}

(* Allow-lists as a client sends them: none, one folder, or folders in    *)
(* another spelling (lower case) next to a folder without tracks.         *)
RankAllowLists == {None, Some(<<D_n>>), Some(<< <<"/", "m">>, D_Ma >>)}

RankInit ==
    /\ KeysIdle
    /\ ScanIdle
    /\ WebIdle
    /\ disk \in {CacheFile("json", lib) : lib \in RankLibraries}
    /\ track \in RankRefTracks
    /\ allowed_folders \in RankAllowLists
    /\ matches = <<>>
    /\ mpc = "call"
    /\ QueryIdle

SpecRank == RankInit /\ [][MatchNext]_vars

(***************************************************************************)
(* Claims about scan_directory (checked under Spec: the command line       *)
(* calls scan_directory up to MaxScans times while the environment makes   *)
(* up to MaxEnv changes).                                                  *)
(***************************************************************************)
cli == sd["cli"]
Returned == cli.pc = "returned"
Extracted == Range(cli.extracted)
Discovered == Range(cli.audio_files)

(* The (mtime, size) the classification loop read for a discovered file,   *)
(* or None when os.path.getmtime raised.                                   *)
SeenStat(f) == cli.seen[CHOOSE k \in DOMAIN cli.audio_files : cli.audio_files[k] = f]

(* The entry the call loaded for f is fresh / gain-incomplete. *)
LoadedFresh(f) ==
    /\ SeenStat(f) # None
    /\ CacheHas(cli.loaded, f)
    /\ CacheGet(cli.loaded, f).mtime = SeenStat(f)[1].mtime
    /\ CacheGet(cli.loaded, f).size = SeenStat(f)[1].size

LoadedGainIncomplete(f) ==
    CacheHas(cli.loaded, f) /\ CacheGet(cli.loaded, f).info.dbfs = -99

(* This call and the caller's previous call ran over the same roots. *)
SecondRunSameRoots == Returned /\ cli.prev.ran /\ cli.prev.directories = cli.directories

(* No file changed from the start of the previous call to the end of this. *)
NothingChanged == cli.chgPrev = {} /\ cli.chgGap = {} /\ cli.chgCur = {}

C2_ExactlyTheChangedFileExtracted ==
    (/\ SecondRunSameRoots
     /\ cli.chgPrev = {} /\ cli.chgCur = {}
     /\ Cardinality(cli.chgGap) = 1
     /\ cli.chgGap \subseteq Discovered
     /\ \A f \in cli.chgGap : fs[f] # None)
        => /\ Extracted = cli.chgGap
           /\ Extracted = {f \in Discovered : CacheHas(cli.loaded, f) /\ ~LoadedFresh(f)}

NeedsAnalysis(f) ==
    /\ SeenStat(f) # None
    /\ \/ ~CacheHas(cli.loaded, f)
       \/ ~LoadedFresh(f)
       \/ cli.calculate_gain /\ LoadedGainIncomplete(f)

(* C2 as amended: the files a scan passes to the extractor, each once, are *)
(* exactly the discovered files whose mtime and size could be read and     *)
(* that have no cache entry, or whose current (mtime, size) differs from   *)
(* the stored fingerprint, or whose cached record is gain-incomplete while *)
(* the scan requests loudness.                                             *)
C2_ExtractedAreExactlyNewStaleOrIncomplete ==
    Returned =>
        /\ Extracted = {f \in Discovered : NeedsAnalysis(f)}
        /\ Len(cli.extracted) = Cardinality(Extracted)

C2_Witness ==
    /\ SecondRunSameRoots
    /\ cli.chgPrev = {} /\ cli.chgCur = {}
    /\ Cardinality(cli.chgGap) = 1
    /\ Extracted = cli.chgGap
    /\ Cardinality(Discovered) = 2
    /\ \E f \in Extracted : CacheHas(cli.loaded, f) /\ ~LoadedFresh(f)

(* C3: a file whose cache entry has an unchanged fingerprint and           *)
(* dbfs = -99.0 is extracted again by a scan with calculate_gain = True,   *)
(* and by a scan with calculate_gain = False it is not extracted and its   *)
(* cached record is returned as it is.                                     *)
C3_GainIncompleteRetry ==
    Returned =>
        \A f \in Discovered :
            (LoadedFresh(f) /\ LoadedGainIncomplete(f)) =>
                IF cli.calculate_gain
                THEN f \in Extracted
                ELSE /\ f \notin Extracted
                     /\ \E k \in DOMAIN cli.files :
                           cli.files[k] = CacheGet(cli.loaded, f).info

C3_Witness ==
    /\ Returned
    /\ cli.calculate_gain
    /\ cli.prev.ran /\ ~cli.prev.calculate_gain
    /\ \E f \in Discovered : LoadedFresh(f) /\ LoadedGainIncomplete(f) /\ f \in Extracted

(* C4: for any roots, overlapping or nested ones included, the returned    *)
(* sequence holds at most one record per absolute path: a file reachable   *)
(* through two roots appears exactly once and is extracted at most once.   *)
C4_OneRecordPerPath ==
    Returned =>
        /\ \A j, k \in DOMAIN cli.files : cli.files[j].path = cli.files[k].path => j = k
        /\ \A j, k \in DOMAIN cli.extracted : cli.extracted[j] = cli.extracted[k] => j = k
        /\ \A f \in Files :
              (fs[f] # None /\ cli.chgCur = {} /\ \E d \in Range(cli.directories) :
                    SubSeq(f, 1, Len(abspath(d))) = abspath(d))
                 => Cardinality({k \in DOMAIN cli.files : cli.files[k].path = f}) = 1

C4_Witness ==
    /\ Returned
    /\ cli.directories = <<D_a, D_M>>
    /\ cli.chgCur = {}
    /\ Cardinality({k \in DOMAIN cli.files : cli.files[k].path = P2}) = 1
    /\ Cardinality({k \in DOMAIN cli.extracted : cli.extracted[k] = P2}) = 1

(* C5 as claimed: scan_directory returns a record for every discovered     *)
(* audio file; no discovered candidate is left out of both the reusable    *)
(* and the needs-analysis files.                                           *)
C5_EveryDiscoveredFileReturned ==
    Returned => ReturnedPaths(cli) = Discovered

(* C5 as amended: scan_directory returns a record for every discovered     *)
(* audio file whose mtime and size could be read when it was classified:   *)
(* the returned paths are the reused files plus the files that needed      *)
(* analysis; a discovered file whose stat raised OSError is in neither.    *)
C5_EveryReadableDiscoveredFileReturned ==
    Returned =>
        /\ ReturnedPaths(cli) = {f \in Discovered : SeenStat(f) # None}
        /\ Range(cli.files_to_analyze) \subseteq ReturnedPaths(cli)
        /\ \A k \in DOMAIN cli.files :
              cli.files[k].path \notin Range(cli.files_to_analyze)
                 => cli.files[k] = CacheGet(cli.loaded, cli.files[k].path).info

C5_Witness ==
    /\ Returned
    /\ \E f \in Discovered : SeenStat(f) = None
    /\ \E f \in Discovered : f \in ReturnedPaths(cli)

ExtractionFailed(outcome) == outcome \in {"decode", "analysis"}

RecordOf(f) == cli.files[CHOOSE k \in DOMAIN cli.files : cli.files[k].path = f]

(* C6: when the extractor fails on a file the scan goes on with every      *)
(* other file needing analysis, returns for the failed file a record with  *)
(* the sentinel values (dbfs -99.0, camelot '---', key 'Unknown', bpm 0)   *)
(* and stores that record in the cache under the file's current            *)
(* fingerprint, so that the entry is gain-incomplete.  Stated for files    *)
(* that nothing touched while the scan ran.                                *)
C6_FailedExtractionGivesSentinelEntry ==
    Returned =>
        /\ cli.extracted = cli.files_to_analyze
        /\ \A k \in DOMAIN cli.outcomes :
              (ExtractionFailed(cli.outcomes[k]) /\ cli.extracted[k] \notin cli.chgCur) =>
                  LET f == cli.extracted[k]
                  IN  /\ RecordOf(f).dbfs = -99
                      /\ RecordOf(f).camelot = <<"-", "-", "-">>
                      /\ RecordOf(f).key = <<"Unknown">>
                      /\ RecordOf(f).bpm = 0
                      /\ CacheHas(cli.cache, f)
                      /\ CacheGet(cli.cache, f).info = RecordOf(f)
                      /\ CacheGet(cli.cache, f).mtime = SeenStat(f)[1].mtime
                      /\ CacheGet(cli.cache, f).size = SeenStat(f)[1].size

(* C18 as claimed: when the cache file is missing or cannot be parsed the  *)
(* scan starts from the empty mapping and classifies every discovered file *)
(* as needing analysis.                                                    *)
C18_ColdStartAnalysesEveryDiscoveredFile ==
    (Returned /\ cli.cache_file \in {"missing", "corrupt"}) =>
        /\ cli.loaded = <<>>
        /\ Range(cli.files_to_analyze) = Discovered

(* C18 as amended: when the cache file is missing or cannot be parsed the  *)
(* scan starts from the empty mapping, classifies as needing analysis      *)
(* every discovered file whose mtime and size could be read, reuses no     *)
(* record, and returns.                                                    *)
C18_ColdStartAnalysesEveryReadableFile ==
    (Returned /\ cli.cache_file \in {"missing", "corrupt"}) =>
        /\ cli.loaded = <<>>
        /\ Range(cli.files_to_analyze) = {f \in Discovered : SeenStat(f) # None}
        /\ cli.extracted = cli.files_to_analyze
        /\ Len(cli.files) = Len(cli.extracted)

C18_Witness ==
    /\ Returned
    /\ cli.cache_file = "corrupt"
    /\ cli.loaded = <<>>
    /\ Cardinality(Discovered) = 2
    /\ Extracted = Discovered

SaveFailed == cli.saved \in {Some("open"), Some("dump")}

FullSequenceReturned ==
    /\ ReturnedPaths(cli) = {f \in Discovered : SeenStat(f) # None}
    /\ Extracted \subseteq ReturnedPaths(cli)
    /\ \A f \in Discovered :
          (LoadedFresh(f) /\ f \notin Extracted) => f \in ReturnedPaths(cli)

Reanalysed(k) == CacheHas(cli.loaded, cli.extracted[k])

(* The entry the cache update writes for the k-th extracted file. *)
NewEntry(k) ==
    Entry(cli.extracted[k], cli.captured[k][1].mtime, cli.captured[k][1].size,
          RecordOf(cli.extracted[k]))

(* C21 as claimed: when a file is re-analysed its cache entry is replaced  *)
(* wholesale: after the scan the entry's info is exactly the newly         *)
(* extracted record, its (mtime, size) is the fingerprint read at that     *)
(* analysis, and nothing of the previous entry survives.                   *)
C21_ReanalysedEntryReplaced ==
    Returned =>
        \A k \in DOMAIN cli.extracted :
            Reanalysed(k) =>
                /\ cli.captured[k] # None
                /\ CacheGet(cli.cache, cli.extracted[k]) = NewEntry(k)

(* C21 as amended: when a file is re-analysed and its mtime and size can   *)
(* be read after the extraction, its cache entry is replaced wholesale by  *)
(* the newly extracted record under the (mtime, size) just read, in the    *)
(* mapping and, when the save succeeds, in the cache file; when they       *)
(* cannot be read the previous entry stays exactly as it was loaded.       *)
C21_ReanalysedEntryReplacedWhenReadable ==
    Returned =>
        \A k \in DOMAIN cli.extracted :
            Reanalysed(k) =>
                IF cli.captured[k] # None
                THEN /\ CacheGet(cli.cache, cli.extracted[k]) = NewEntry(k)
                     /\ cli.extracted[k] \notin cli.chgCur =>
                            cli.captured[k] = SeenStat(cli.extracted[k])
                     /\ cli.saved = Some("ok") =>
                            CacheGet(load_cache, cli.extracted[k]) = NewEntry(k)
                ELSE CacheGet(cli.cache, cli.extracted[k]) =
                        CacheGet(cli.loaded, cli.extracted[k])

C21_Witness ==
    /\ Returned
    /\ cli.saved = Some("ok")
    /\ \E k \in DOMAIN cli.extracted :
          /\ Reanalysed(k)
          /\ cli.captured[k] # None
          /\ CacheGet(cli.loaded, cli.extracted[k]).info # RecordOf(cli.extracted[k])
          /\ CacheGet(cli.loaded, cli.extracted[k]).mtime # cli.captured[k][1].mtime
          /\ CacheGet(load_cache, cli.extracted[k]) = NewEntry(k)

(***************************************************************************)
(* Claims about the background scan (checked under SpecWeb: MaxRequests    *)
(* start-scan requests and the worker threads interleave).                 *)
(***************************************************************************)
ActiveWorkers == {w \in Workers : Active(w)}

(* C20: when a multi-folder background scan is interrupted, at whatever    *)
(* point, the persisted cache holds the entries of every file analysed in  *)
(* the folders whose scan had completed: what an earlier batch save        *)
(* persisted is not undone by the interruption.                            *)
C20_InterruptKeepsCompletedFolders ==
    Killed =>
        \A w \in Workers : \A f \in wk[w].analysed : CacheHas(load_cache, f)

(* Every entry the call loaded is in cache c, and unchanged unless the     *)
(* call analysed its file; c has no entry beyond these and the analysed.   *)
OnlyAnalysedChanged(c) ==
    /\ \A f \in CachePaths(cli.loaded) :
          /\ CacheHas(c, f)
          /\ f \notin Extracted => CacheGet(c, f) = CacheGet(cli.loaded, f)
    /\ CachePaths(c) \subseteq CachePaths(cli.loaded) \cup Extracted

ReusedNow == {f \in ReturnedPaths(cli) : f \notin Extracted}

(* C28: every cache entry a later scan treats as fresh holds a record      *)
(* extracted from the content that had the stored fingerprint: a file      *)
(* modified while it was being extracted, before its fingerprint was read  *)
(* for the entry, is extracted again by the next scan and not reused.      *)
C28_ModifiedDuringExtractionIsReextracted ==
    (Returned /\ cli.prev.ran /\ cli.prev.saved = Some("ok")) =>
        ReusedNow \cap cli.prev.stale = {}

(* A step in which the command line's scan calls save_cache, or the cache  *)
(* file changes.                                                           *)
CacheWritten ==
    \/ disk' # disk
    \/ sd'["cli"].n = cli.n /\ sd'["cli"].saved # cli.saved

(* C24: one call of scan_directory writes the cache file at most once, and *)
(* only after every file needing analysis in that call was extracted; a    *)
(* call in which no file needed analysis does not write it.                *)
C24_OneBatchSavePerCall ==
    /\ [][CacheWritten =>
            /\ cli.pc = "save"
            /\ cli.saved = None
            /\ cli.files_to_analyze # <<>>
            /\ cli.extracted = cli.files_to_analyze
            /\ sd'["cli"].pc = "returned"]_vars
    /\ [](Returned => (cli.saved = None <=> cli.files_to_analyze = <<>>))

C24_Witness ==
    /\ Returned
    /\ Len(cli.extracted) = 2
    /\ cli.before_save = <<>>
    /\ cli.saved = Some("ok")
    /\ Len(load_cache) = 2

(* The records a call reused from the cache come first in files. *)
ReusedPaths(fr) == {fr.files[k].path : k \in 1..(Len(fr.files) - Len(fr.extracted))}

(* The callback was called once for each file extracted so far, in the     *)
(* order of files_to_analyze, before the extraction of the file, and for   *)
(* no reused file.                                                         *)
CallbackOrder(fr) ==
    fr.callback # None =>
        /\ Len(fr.notified) <= Len(fr.files_to_analyze)
        /\ fr.notified = SubSeq(fr.files_to_analyze, 1, Len(fr.notified))
        /\ \A i, j \in DOMAIN fr.notified : fr.notified[i] = fr.notified[j] => i = j
        /\ Len(fr.extracted) <= Len(fr.notified)
        /\ fr.extracted = SubSeq(fr.notified, 1, Len(fr.extracted))
        /\ fr.pc = "extract" => Len(fr.notified) = Len(fr.extracted) + 1
        /\ fr.pc \notin {"extract", "killed", "raised"} => Len(fr.notified) = Len(fr.extracted)
        /\ fr.pc = "returned" => fr.notified = fr.files_to_analyze
        /\ ReusedPaths(fr) \cap Range(fr.notified) = {}

(* A call of the callback writes current_file and nothing else: the        *)
(* locals of scan_directory, the cache file and the files stay as they are.*)
CallbackOnlyObserves ==
    \A w \in Workers :
        (sd[w].pc = "analyze" /\ sd'[w].pc = "extract") =>
            /\ sd'[w] = [sd[w] EXCEPT !.pc = "extract", !.notified = sd'[w].notified]
            /\ SCAN_STATUS' = [SCAN_STATUS EXCEPT !.current_file = SCAN_STATUS'.current_file]
            /\ UNCHANGED <<disk, fs>>

(* C23: in every scan the progress callback is called exactly once for     *)
(* each file that needs analysis, before that file's extraction starts,    *)
(* and never for a file whose record is reused; the call changes nothing   *)
(* the records returned or the cache written depend on.                    *)
C23_CallbackOncePerAnalysedFile ==
    /\ [](\A w \in Workers : CallbackOrder(sd[w]))
    /\ [][CallbackOnlyObserves]_vars

C23_Witness ==
    \E w \in Workers :
        /\ sd[w].pc = "extract"
        /\ Len(sd[w].files_to_analyze) = 2
        /\ Len(sd[w].notified) = 2
        /\ Len(sd[w].extracted) = 1
        /\ SCAN_STATUS.current_file = Some(basename(sd[w].notified[2]))

(* C25: the status reports scanning exactly while a scan worker is active: *)
(* while a worker accepted by start-scan has not finished scanning is      *)
(* true, and while no worker is active scanning is false.                  *)
C25_ScanningIffWorkerActive ==
    ~Killed => (SCAN_STATUS.scanning <=> ActiveWorkers # {})

StatusReset ==
    /\ ~SCAN_STATUS.scanning
    /\ SCAN_STATUS.current_folder = None
    /\ SCAN_STATUS.current_file = None

(* C26: every accepted background scan eventually ends; when it ends,      *)
(* normally or through an exception, the status is reset to scanning       *)
(* false, no current folder and no current file, and stays so while no     *)
(* worker is active, so that the next start-scan request is accepted.      *)
C26_ScanEndsAndResetsStatus ==
    /\ \A w \in Workers : (wk[w].pc = "start") ~> (wk[w].pc \in {"done", "killed"})
    /\ [][\A w \in Workers : (wk[w].pc # "done" /\ wk'[w].pc = "done") => StatusReset']_vars
    /\ []((ActiveWorkers = {} /\ ~Killed) => StatusReset)

C26_Witness ==
    /\ ~Killed
    /\ ActiveWorkers = {}
    /\ response = Some("started")
    /\ reqLeft = 0
    /\ \E w \in Workers : wk[w].pc = "done" /\ wk[w].raised /\ sd[w].pc = "raised"
    /\ StatusReset

(* C29: cache writes never lose another writer's entries: when two          *)
(* scan_directory runs over different folders overlap in time, after both  *)
(* have saved the cache file holds the entries of the files analysed by    *)
(* both runs.                                                              *)
C29_NoLostCacheUpdate ==
    \A v, w \in Workers :
        (/\ ~Killed
         /\ v # w
         /\ sd[v].pc = "returned" /\ sd[v].saved = Some("ok")
         /\ sd[w].pc = "returned" /\ sd[w].saved = Some("ok")
         /\ sd[v].directories # sd[w].directories) =>
            \A f \in sd[v].stored \cup sd[w].stored : CacheHas(load_cache, f)

(* C7: under any interleaving of start-scan requests and worker steps at   *)
(* most one background scan worker is active: a request that arrives       *)
(* while an accepted scan has not finished is answered 'already_scanning'  *)
(* and starts no worker.                                                   *)
C7_AtMostOneActiveWorker == Cardinality(ActiveWorkers) <= 1

(***************************************************************************)
(* Match queries: one request to /api/analyze, /api/mix-suggestions or     *)
(* /api/track-info over a cache of up to MaxQuery entries.                 *)
(***************************************************************************)
MaxQuery == 2
QueryPath == {P4, P1, P2}
QueryCodes == {Code(8, "A"), Code(9, "A"), SENTINEL_CAMELOT}

QueryEntry(path, camelot) ==
    Entry(path, 1, 1,
          Info(path, IF camelot = SENTINEL_CAMELOT THEN SENTINEL_DBFS ELSE -12,
               camelot, IF camelot = SENTINEL_CAMELOT THEN 0 ELSE RefBpm))

QueryLibraries ==
    UNION {{[i \in 1..n |-> QueryEntry(paths[i], codes[i])] :
                paths \in {q \in [1..n -> QueryPath] : \A i, j \in 1..n : q[i] = q[j] => i = j},
                codes \in [1..n -> QueryCodes]} :
              n \in 0..(IF MaxQuery < Cardinality(QueryPath) THEN MaxQuery
                         ELSE Cardinality(QueryPath))}

F_x == <<"x", ".", "m", "p", "3">>
F_q == <<"q", ".", "m", "p", "3">>
FormValues ==
    {None, Some(<<>>), Some(<<"[", "]">>), Some(<<"[", "\"", "/", "M", "\"", "]">>),
     Some(<<"[", "5", "]">>), Some(<<"o", "o", "p", "s">>), Some(<<"5">>)}
JsonValues ==
    {PyNone, PyList(<<>>), PyList(<<PyStr(D_M)>>), PyStr(D_M), PyInt(5)}
InlineTracks ==
    {[path |-> p, folder |-> D_M, camelot |-> Code(8, "A"), bpm |-> RefBpm] : p \in {<<>>, P1}}

Request(endpoint, filename, path, t, form_allowed, json_allowed) ==
    [endpoint |-> endpoint, filename |-> filename, path |-> path, track |-> t,
     form_allowed |-> form_allowed, json_allowed |-> json_allowed]

Requests ==
    {Request("analyze", fn, None, None, fa, PyNone) :
        fn \in {None, Some(<<>>), Some(F_x), Some(F_q)}, fa \in FormValues}
    \cup {Request("mix", None, None, t, None, ja) :
        t \in {None} \cup {Some(i) : i \in InlineTracks}, ja \in JsonValues}
    \cup {Request("info", fn, pa, None, None, PyNone) :
        fn \in {None, Some(F_x), Some(<<"x">>), Some(<<"q">>)},
        pa \in {None, Some(P1), Some(P3)}}

QueryInit ==
    /\ KeysIdle
    /\ ScanIdle
    /\ WebIdle
    /\ track = <<>>
    /\ allowed_folders = None
    /\ matches = <<>>
    /\ mpc = "done"
    /\ disk \in {CacheFile("json", lib) : lib \in QueryLibraries}
    /\ request \in Requests
    /\ reply = None

Unchanged_Query ==
    UNCHANGED <<keyVars, disk, scanVars, webVars, track, allowed_folders, matches, mpc, request>>

AnalyzeTrack ==
    /\ reply = None
    /\ request.endpoint = "analyze"
    /\ reply' = analyze_track(request)
    /\ Unchanged_Query

MixSuggestions ==
    /\ reply = None
    /\ request.endpoint = "mix"
    /\ reply' = mix_suggestions(request)
    /\ Unchanged_Query

GetTrackInfo ==
    /\ reply = None
    /\ request.endpoint = "info"
    /\ reply' = get_track_info(request)
    /\ Unchanged_Query

QueryNext == AnalyzeTrack \/ MixSuggestions \/ GetTrackInfo

SpecQuery == QueryInit /\ [][QueryNext]_vars

(***************************************************************************)
(* Claims about the order of the matches (checked under SpecRank).         *)
(***************************************************************************)
TierRank(mix_type) ==
    CASE mix_type = "PERFECT" -> 1 [] mix_type = "HARMONIC" -> 2 [] mix_type = "ENERGY" -> 3

FolderRank(m) == IF m.track.folder = track.folder THEN 0 ELSE 10

TempoGap(m) ==
    IF m.track.bpm >= track.bpm THEN m.track.bpm - track.bpm ELSE track.bpm - m.track.bpm

SortKey(m) == <<FolderRank(m), TierRank(m.mix_type), TempoGap(m)>>

LexLess(a, b) ==
    \/ a[1] < b[1]
    \/ a[1] = b[1] /\ a[2] < b[2]
    \/ a[1] = b[1] /\ a[2] = b[2] /\ a[3] < b[3]

LibraryIndex(path) == CHOOSE k \in DOMAIN disk.data : disk.data[k].path = path

(* C11: the list find_matches returns is ascending, lexicographically, by  *)
(* (same_folder_priority, priority, bpm_diff), with same_folder_priority 0 *)
(* in the reference's folder and 10 elsewhere, priority 1/2/3 for          *)
(* PERFECT/HARMONIC/ENERGY and bpm_diff the absolute tempo difference;     *)
(* matches with equal keys keep their library order; every same-folder     *)
(* match precedes every other-folder match.                                *)
C11_MatchesSortedStable ==
    mpc = "done" =>
        /\ \A i \in DOMAIN matches :
              /\ matches[i].same_folder_priority = FolderRank(matches[i])
              /\ matches[i].priority = TierRank(matches[i].mix_type)
              /\ matches[i].bpm_diff = TempoGap(matches[i])
        /\ \A i, j \in DOMAIN matches :
              i < j =>
                 /\ ~LexLess(SortKey(matches[j]), SortKey(matches[i]))
                 /\ SortKey(matches[i]) = SortKey(matches[j])
                       => LibraryIndex(matches[i].track.path) < LibraryIndex(matches[j].track.path)
                 /\ FolderRank(matches[j]) = 0 => FolderRank(matches[i]) = 0

C11_Witness ==
    /\ mpc = "done"
    /\ Len(matches) = 3
    /\ FolderRank(matches[1]) = 0 /\ matches[1].mix_type = "ENERGY" /\ matches[1].bpm_diff = 6
    /\ FolderRank(matches[2]) = 10 /\ matches[2].mix_type = "PERFECT" /\ matches[2].bpm_diff = 0
    /\ SortKey(matches[2]) = SortKey(matches[3])
    /\ LibraryIndex(matches[1].track.path) = 2

(***************************************************************************)
(* Claims about the Camelot helpers (checked under SpecKeys).              *)
(***************************************************************************)
NextOnWheel(n) == (n % 12) + 1
PrevOnWheel(n) == ((n + 10) % 12) + 1
OppositeLetter(l) == IF l = "A" THEN "B" ELSE "A"

(* C8: for every valid Camelot code nL, get_compatible_keys returns exactly *)
(* [nL, n with the opposite letter, n+1 (12 wraps to 1) with L, n-1 (1     *)
(* wraps to 12) with L], in this order; '8B' gives 8B 8A 9B 7B and '1A'    *)
(* gives 1A 1B 2A 12A.                                                     *)
C8_CompatibleKeysOfValidCode ==
    kpc = "done" =>
        /\ \A n \in 1..12, l \in {"A", "B"} :
              camelot_code = Code(n, l) =>
                  compatible = << Code(n, l), Code(n, OppositeLetter(l)),
                                  Code(NextOnWheel(n), l), Code(PrevOnWheel(n), l) >>
        /\ camelot_code = <<"8", "B">> =>
              compatible = << <<"8", "B">>, <<"8", "A">>, <<"9", "B">>, <<"7", "B">> >>
        /\ camelot_code = <<"1", "A">> =>
              compatible = << <<"1", "A">>, <<"1", "B">>, <<"2", "A">>, <<"1", "2", "A">> >>

C8_Witness ==
    /\ kpc = "done"
    /\ camelot_code = <<"1", "2", "B">>
    /\ compatible = << <<"1", "2", "B">>, <<"1", "2", "A">>, <<"1", "B">>, <<"1", "1", "B">> >>

(* C9: get_compatible_keys returns the empty list for every input that is  *)
(* not a valid Camelot code ('---', a number outside 1..12, a letter other *)
(* than A or B).                                                           *)
C9_InvalidCodeGivesEmptyList ==
    (kpc = "done" /\ camelot_code \notin ValidCodes) => compatible = <<>>

(***************************************************************************)
(* Claims about find_matches (checked under SpecMatch).                    *)
(***************************************************************************)
NumOf(code) == CHOOSE n \in 1..12 : \E l \in {"A", "B"} : code = Code(n, l)
LetOf(code) == CHOOSE l \in {"A", "B"} : \E n \in 1..12 : code = Code(n, l)

SameNumberOtherLetter(r, c) == NumOf(r) = NumOf(c) /\ LetOf(r) # LetOf(c)
EnergyUp(r, c) == LetOf(r) = LetOf(c) /\ NumOf(c) = NextOnWheel(NumOf(r))
EnergyDown(r, c) == LetOf(r) = LetOf(c) /\ NumOf(c) = PrevOnWheel(NumOf(r))

DescriptorAgrees(r, m) ==
    LET c == m.track.camelot
    IN  /\ m.mix_type \in {"PERFECT", "HARMONIC", "ENERGY"}
        /\ (m.mix_type = "PERFECT") <=> (r = c)
        /\ (m.mix_type = "HARMONIC") <=> SameNumberOtherLetter(r, c)
        /\ (m.mix_type = "ENERGY") <=> (EnergyUp(r, c) \/ EnergyDown(r, c))
        /\ (m.mix_type = "PERFECT") => m.priority = 1
        /\ (m.mix_type = "HARMONIC") =>
              /\ m.priority = 2
              /\ (LetOf(r) = "A" /\ LetOf(c) = "B") =>
                    m.mix_desc = "Cambio de Escala: De Serio a Alegre"
              /\ (LetOf(r) = "B" /\ LetOf(c) = "A") =>
                    m.mix_desc = "Cambio de Escala: De Alegre a Serio"
        /\ (m.mix_type = "ENERGY") =>
              /\ m.priority = 3
              /\ EnergyUp(r, c) => m.mix_desc = "Subir energia (+1)"
              /\ EnergyDown(r, c) => m.mix_desc = "Bajar energia (-1)"

(* C10: for every reference and emitted candidate with valid Camelot codes, *)
(* mix_type and priority agree with the relation of the two codes:          *)
(* PERFECT/1 iff equal, HARMONIC/2 iff same number and other letter (with   *)
(* the direction in mix_desc), ENERGY/3 iff same letter and number +1 (up)  *)
(* or -1 (down) on the wheel, 12 and 1 being adjacent.                      *)
C10_ClassificationAgrees ==
    mpc = "done" =>
        \A i \in DOMAIN matches :
            (track.camelot \in ValidCodes /\ matches[i].track.camelot \in ValidCodes)
                => DescriptorAgrees(track.camelot, matches[i])

C10_Witness ==
    /\ mpc = "done"
    /\ track.camelot = <<"1", "2", "B">>
    /\ \E i \in DOMAIN matches :
          /\ matches[i].track.camelot = <<"1", "B">>
          /\ matches[i].mix_type = "ENERGY"
          /\ matches[i].mix_desc = "Subir energia (+1)"

WheelNumber(code) == IntVal(SubSeq(code, 1, Len(code) - 1))
WheelLetter(code) == code[Len(code)]

(* The relation of a candidate's code to the reference's, from the number  *)
(* and the letter of the two codes.                                        *)
DerivedRelation(r, c) ==
    LET rn == WheelNumber(r)
        cn == WheelNumber(c)
    IN  IF r = c THEN "PERFECT"
        ELSE IF rn = cn /\ WheelLetter(r) # WheelLetter(c) THEN "HARMONIC"
        ELSE IF /\ WheelLetter(r) = WheelLetter(c)
                /\ \/ cn = rn + 1 \/ cn = rn - 1
                   \/ rn = 12 /\ cn = 1
                   \/ rn = 1 /\ cn = 12
        THEN "ENERGY"
        ELSE "NONE"

(* C12: for any reference code, valid position or not, every candidate     *)
(* find_matches emits carries the mix_type of the relation re-derived from *)
(* the numbers and letters of the two codes; a candidate in no relation    *)
(* (not PERFECT, HARMONIC or ENERGY) is not emitted.                       *)
C12_EmittedTypeIsDerivedRelation ==
    mpc = "done" =>
        \A i \in DOMAIN matches :
            matches[i].mix_type = DerivedRelation(track.camelot, matches[i].track.camelot)

(* C13: for a reference that has a path, no match find_matches returns has *)
(* the reference's path, even when the library holds the reference and its *)
(* code is compatible with itself.                                         *)
C13_ReferenceNotSuggested ==
    (mpc = "done" /\ track.path # <<>>) =>
        \A i \in DOMAIN matches : matches[i].track.path # track.path

C13_Witness ==
    /\ mpc = "done"
    /\ track.path # <<>>
    /\ track.camelot \in ValidCodes
    /\ allowed_folders = None
    /\ \E k \in DOMAIN disk.data :
          /\ disk.data[k].path = track.path
          /\ disk.data[k].info.camelot = track.camelot
    /\ matches = <<>>

(* C14: for a reference whose camelot is '---' find_matches returns the     *)
(* empty list, for every library and every allow-list.                     *)
C14_SentinelReferenceHasNoMatches ==
    (mpc = "done" /\ track.camelot = <<"-", "-", "-">>) => matches = <<>>

C14_Witness ==
    /\ mpc = "done"
    /\ track.camelot = <<"-", "-", "-">>
    /\ track.path = <<>>
    /\ allowed_folders = None
    /\ \E k \in DOMAIN disk.data : disk.data[k].info.camelot \in ValidCodes
    /\ matches = <<>>

(***************************************************************************)
(* Claims about the match-query endpoints (checked under SpecQuery).       *)
(***************************************************************************)
Answered == reply # None
SuggestedPaths ==
    {reply[1].suggestions[1][k].track.path : k \in DOMAIN reply[1].suggestions[1]}

(* The cache entries in some relation to the answered reference track,     *)
(* the reference itself excepted.                                          *)
RelatedEntries ==
    {e \in Range(disk.data) :
        /\ e.info.camelot \in ValidCodes
        /\ e.path # reply[1].track[1].path
        /\ reply[1].track[1].camelot \in ValidCodes
        /\ DerivedRelation(reply[1].track[1].camelot, e.info.camelot) # "NONE"}

NoAllowList ==
    \/ request.endpoint = "analyze" /\ request.form_allowed = None
    \/ request.endpoint = "mix" /\ request.json_allowed = PyNone

EmptyAllowList ==
    \/ request.endpoint = "analyze" /\ request.form_allowed = Some(<<"[", "]">>)
    \/ request.endpoint = "mix" /\ request.json_allowed = PyList(<<>>)

(* C15: through the analyze and mix-suggestions endpoints, with no         *)
(* allow-list every related library track, whatever its folder, is         *)
(* suggested, and with an empty (non-null) allow-list the suggestions are  *)
(* the empty list even when related candidates exist.                      *)
C15_NoFilterVersusEmptyFilter ==
    (Answered /\ request.endpoint \in {"analyze", "mix"} /\ reply[1].track # None) =>
        /\ NoAllowList =>
              /\ reply[1].status = 200
              /\ SuggestedPaths = {e.path : e \in RelatedEntries}
        /\ EmptyAllowList =>
              /\ reply[1].status = 200
              /\ reply[1].suggestions = Some(<<>>)

C15_Witness ==
    /\ Answered
    /\ request.endpoint = "analyze"
    /\ EmptyAllowList
    /\ reply[1].status = 200
    /\ reply[1].suggestions = Some(<<>>)
    /\ RelatedEntries # {}

(* The allow-list of the request is not a list of folder strings. *)
NotAFolderList(v) ==
    \/ v.kind \in {"str", "int"}
    \/ v.kind = "list" /\ \E k \in DOMAIN v.val : v.val[k].kind # "str"

MalformedAllowList ==
    \/ /\ request.endpoint = "analyze"
       /\ request.form_allowed # None
       /\ request.form_allowed[1] # <<>>
       /\ \/ json_loads(request.form_allowed[1]) = None
          \/ NotAFolderList(json_loads(request.form_allowed[1])[1])
    \/ /\ request.endpoint = "mix"
       /\ NotAFolderList(request.json_allowed)

(* C16: a match query whose folder allow-list is malformed is answered     *)
(* with an error and no suggestions; it is not processed as if no          *)
(* allow-list had been supplied.                                           *)
C16_MalformedAllowListRejected ==
    (Answered /\ MalformedAllowList) =>
        /\ reply[1].status # 200
        /\ reply[1].suggestions = None

(* The cache entries get_track_info may resolve the request to. *)
PathHit == {e \in Range(disk.data) : Truthy(request.path) /\ e.path = request.path[1]}
ExactHits ==
    {e \in Range(disk.data) : Truthy(request.filename) /\ e.info.filename = request.filename[1]}
PartialHits ==
    {e \in Range(disk.data) :
        Truthy(request.filename) /\ IsSubstring(request.filename[1], e.info.filename)}

EarliestOf(hits) ==
    CHOOSE e \in hits : \A o \in hits : LibraryIndex(e.path) <= LibraryIndex(o.path)

(* C17: get_track_info resolves a request by the exact path key, else by   *)
(* the first entry whose filename equals the requested one, else by the    *)
(* first entry whose filename contains it, and answers 404 only when all   *)
(* three fail; an exact filename match is preferred to a substring match   *)
(* wherever the two entries are in the cache.                              *)
C17_LookupOrder ==
    (Answered /\ request.endpoint = "info" /\ (Truthy(request.path) \/ Truthy(request.filename))) =>
        IF PathHit # {} THEN
            reply[1].status = 200 /\ reply[1].track = Some(EarliestOf(PathHit).info)
        ELSE IF ExactHits # {} THEN
            reply[1].status = 200 /\ reply[1].track = Some(EarliestOf(ExactHits).info)
        ELSE IF PartialHits # {} THEN
            reply[1].status = 200 /\ reply[1].track = Some(EarliestOf(PartialHits).info)
        ELSE reply[1].status = 404 /\ reply[1].track = None

C17_Witness ==
    /\ Answered
    /\ request.endpoint = "info"
    /\ request.filename = Some(<<"x", ".", "m", "p", "3">>)
    /\ PathHit = {}
    /\ Len(disk.data) = 2
    /\ disk.data[1].info.filename = <<"a", "x", ".", "m", "p", "3">>
    /\ disk.data[2].info.filename = <<"x", ".", "m", "p", "3">>
    /\ reply[1].status = 200
    /\ reply[1].track = Some(disk.data[2].info)

(***************************************************************************)
(* Claims about the folder allow-list (checked under SpecRank).            *)
(***************************************************************************)
Filtering == mpc = "done" /\ allowed_folders # None /\ allowed_folders[1] # <<>>

(* The folder that contains the candidate of a descriptor. *)
CandidateFolder(m) == dirname(m.track.path)

(* Two folder names that differ at most in case, in the separator and in   *)
(* leading or trailing slashes.                                            *)
SameFolderName(a, b) ==
    strip_slash(replace_backslash(lower(a))) = strip_slash(replace_backslash(lower(b)))

OnAllowList(m) ==
    \E i \in DOMAIN allowed_folders[1] : SameFolderName(CandidateFolder(m), allowed_folders[1][i])

(* C22 as claimed: with a non-empty allow-list the folder of every         *)
(* returned candidate is one of the allowed folders.                       *)
C22_CandidateFolderIsAllowed ==
    Filtering =>
        \A k \in DOMAIN matches : CandidateFolder(matches[k]) \in Range(allowed_folders[1])

(* C22 as amended: with a non-empty allow-list the folder of every         *)
(* returned candidate equals an allowed folder up to case, separator and   *)
(* leading or trailing slashes; the result is the unfiltered result with   *)
(* the descriptors of the other folders removed, whatever the folder of    *)
(* the reference track.                                                    *)
C22_CandidateFolderMatchesAllowed ==
    Filtering =>
        /\ \A k \in DOMAIN matches : OnAllowList(matches[k])
        /\ LET all == find_matches(track, None)
           IN  matches = SelectSeq2(all, {m \in Range(all) : OnAllowList(m)})

C22_Witness ==
    /\ Filtering
    /\ allowed_folders = Some(<<D_n>>)
    /\ track.folder = D_M
    /\ Len(matches) = 2
    /\ Len(find_matches(track, None)) = 3

(***************************************************************************)
(* Claims about the reference of a mix-suggestions query (checked under    *)
(* SpecQuery).                                                             *)
(***************************************************************************)
MixAnswered ==
    /\ Answered
    /\ request.endpoint = "mix"
    /\ request.track # None
    /\ reply[1].status = 200

(* The records of the current library under the path of the inline track. *)
LibraryHits ==
    IF request.track[1].path = <<>> THEN {}
    ELSE {t \in Range(get_library) : t.path = request.track[1].path}

(* The answer for reference t: t itself and the matches computed from it. *)
AnsweredFor(t) ==
    /\ reply[1].track = Some(t)
    /\ reply[1].suggestions = Some(call_find_matches(t, request.json_allowed).val)

(* C30: in a mix-suggestions query whose reference has a path found in the *)
(* current library, the matches are computed from the library's record and *)
(* the response's track is that record, not the inline data; the inline    *)
(* data is used only when the path is absent or not found in the library.  *)
C30_LibraryRecordBeforeInlineData ==
    MixAnswered =>
        IF LibraryHits # {}
        THEN \E t \in LibraryHits : AnsweredFor(t)
        ELSE AnsweredFor(request.track[1])

C30_Witness ==
    /\ MixAnswered
    /\ LibraryHits # {}
    /\ request.track[1].camelot = Code(8, "A")
    /\ reply[1].track[1].camelot = Code(9, "A")
    /\ reply[1].track[1] # request.track[1]
    /\ Len(reply[1].suggestions[1]) = 1
    /\ reply[1].suggestions[1][1].mix_type = "ENERGY"

====
